---- MODULE Spec2Model ----
(***************************************************************************)
(* Model of aws_key_rotate/cli.py: the rotation run of main(), the local   *)
(* credentials file handled through configparser, and the IAM provider     *)
(* (list / create / delete access keys) it talks to.                       *)
(*                                                                         *)
(* Access key ids are modelled as the numbers 1..MaxKeyId+1, standing for  *)
(* the strings "AKIA1", "AKIA2", ...; the numeric order is the             *)
(* lexicographic order of those strings.  A secret is modelled by the      *)
(* number of the key it belongs to.  NoKey stands for Python's None / ''.  *)
(***************************************************************************)
EXTENDS Integers, Sequences, FiniteSets, TLC

\* ---------------------------------------------------------------- bounds
MaxKeyId == 3       \* key ids that exist before the run: 1..MaxKeyId
MaxTime  == 1       \* creation timestamps before the run: 0..MaxTime
MaxLen   == 3       \* longest record list given to the selector on its own
MaxTries == 2       \* invalid answers modelled at the profile menu

\* ------------------------------------------------------ program constants
KeyLimit == 2       \* "if len(access_keys) >= 2" : the provider's cap

NoKey == 0
KeyIds == 1..MaxKeyId
NewKeyId == MaxKeyId + 1
Times == 0..MaxTime
Statuses == {"Active", "Inactive"}
Profiles == {"default", "work"}
SectionNames == Profiles \cup {"DEFAULT"}

\* ------------------------------------------------------------- provider
KeyRecords == [AccessKeyId : 1..(MaxKeyId + 1), Status : Statuses, CreateDate : 0..(MaxTime + 1)]
NoRecord == [AccessKeyId |-> NoKey, Status |-> "Inactive", CreateDate |-> 0]

Ids(S) == {k.AccessKeyId : k \in S}
SeqIds(s) == {s[i].AccessKeyId : i \in 1..Len(s)}
UniqueIds(S) == \A a, b \in S : a.AccessKeyId = b.AccessKeyId => a = b

\* every order in which the provider may list the set S
ListingsOf(S) ==
    {s \in [1..Cardinality(S) -> S] : \A i, j \in 1..Cardinality(S) : s[i] = s[j] => i = j}

\* ------------------------------------------------------ credentials file
NoSection == [present |-> FALSE, id |-> NoKey, secret |-> NoKey, extra |-> FALSE]
SectionVals == [present : BOOLEAN, id : 0..(MaxKeyId + 2), secret : 0..(MaxKeyId + 2), extra : BOOLEAN]
Bound(k) == [present |-> TRUE, id |-> k, secret |-> k, extra |-> FALSE]
FileVals == [exists : BOOLEAN, malformed : BOOLEAN, keyComment : BOOLEAN,
             sec : [SectionNames -> SectionVals]]
NoFile == [exists |-> FALSE, malformed |-> FALSE, keyComment |-> FALSE,
           sec |-> [s \in SectionNames |-> NoSection]]
EmptyFile == [NoFile EXCEPT !.exists = TRUE]
MalformedFile == [NoFile EXCEPT !.exists = TRUE, !.malformed = TRUE]

\* configparser: "name in config" is true for DEFAULT and for every section
InConfig(f, name) == name = "DEFAULT" \/ f.sec[name].present

\* config[section].get(option): the section's own value, else the DEFAULT
\* section's value, else None
GetOption(f, section, option) ==
    LET own == IF option = "id" THEN f.sec[section].id ELSE f.sec[section].secret
        dflt == IF option = "id" THEN f.sec["DEFAULT"].id ELSE f.sec["DEFAULT"].secret
    IN IF section # "DEFAULT" /\ f.sec[section].present /\ own # NoKey THEN own
       ELSE IF f.sec["DEFAULT"].present THEN dflt ELSE NoKey

read_profile_credentials(f, profile) ==
    IF ~f.exists THEN <<NoKey, NoKey>>
    ELSE IF f.malformed THEN <<NoKey, NoKey>>
    ELSE LET section == IF InConfig(f, profile) THEN profile ELSE "DEFAULT"
         IN <<GetOption(f, section, "id"), GetOption(f, section, "secret")>>

\* get_available_profiles: the sections of the file (DEFAULT is never one),
\* with 'default' put first when the text before the first header mentions
\* aws_access_key_id; a missing or unparsable file gives no profile
get_available_profiles(f) ==
    IF ~f.exists \/ f.malformed THEN {}
    ELSE {p \in Profiles : f.sec[p].present}
         \cup (IF ~f.sec["default"].present /\ f.keyComment THEN {"default"} ELSE {})

\* a rewrite that always sets the options of the section 'default'
WrittenFile_DefaultSection(f, profile, id, secret) ==
    LET old == IF f.exists THEN f ELSE EmptyFile
    IN [exists |-> TRUE, malformed |-> FALSE, keyComment |-> FALSE,
        sec |-> [old.sec EXCEPT !["default"] =
                    [present |-> TRUE, id |-> id, secret |-> secret,
                     extra |-> old.sec["default"].present /\ old.sec["default"].extra]]]

\* a rewrite that does not read the existing file first
WrittenFile_Fresh(f, profile, id, secret) ==
    [exists |-> TRUE, malformed |-> FALSE, keyComment |-> FALSE,
     sec |-> [EmptyFile.sec EXCEPT ![profile] =
                [present |-> TRUE, id |-> id, secret |-> secret, extra |-> FALSE]]]

\* the file as configparser writes it back after setting the two options of
\* the profile's section: comments are gone, a DEFAULT section without
\* options is not written
WrittenFile(f, profile, id, secret) ==
    LET old == IF f.exists THEN f ELSE EmptyFile
        sec1 == [old.sec EXCEPT ![profile] =
                    [present |-> TRUE, id |-> id, secret |-> secret,
                     extra |-> old.sec[profile].present /\ old.sec[profile].extra]]
        d == sec1["DEFAULT"]
        sec2 == [sec1 EXCEPT !["DEFAULT"] =
                    IF d.present /\ d.id = NoKey /\ d.secret = NoKey /\ ~d.extra
                    THEN NoSection ELSE d]
    IN [exists |-> TRUE, malformed |-> FALSE, keyComment |-> FALSE, sec |-> sec2]

\* -------------------------------------------------------------- selector
\* a min that returns the last element with the least date
MinByCreateDate_LastListed(s) ==
    s[CHOOSE i \in 1..Len(s) :
        \A j \in 1..Len(s) :
            \/ s[i].CreateDate < s[j].CreateDate
            \/ s[i].CreateDate = s[j].CreateDate /\ i >= j]

\* Python's min(keys, key=CreateDate): the first element with the least date
MinByCreateDate(s) ==
    s[CHOOSE i \in 1..Len(s) :
        \A j \in 1..Len(s) :
            \/ s[i].CreateDate < s[j].CreateDate
            \/ s[i].CreateDate = s[j].CreateDate /\ i <= j]

IsInactive(k) == k.Status = "Inactive"
IsActive(k) == k.Status = "Active"

\* a selector that forgets to prefer the inactive keys
get_recommended_key_to_delete_OldestOverall(keys) ==
    IF Len(keys) > 0 THEN MinByCreateDate(keys) ELSE NoRecord

get_recommended_key_to_delete(keys) ==
    LET inactive_keys == SelectSeq(keys, IsInactive)
        active_keys_list == SelectSeq(keys, IsActive)
    IN IF Len(inactive_keys) > 0 THEN MinByCreateDate(inactive_keys)
       ELSE IF Len(active_keys_list) > 0 THEN MinByCreateDate(active_keys_list)
       ELSE IF Len(keys) > 0 THEN keys[1] ELSE NoRecord

\* the files a run may start from
SectionOptions ==
    {NoSection, [present |-> TRUE, id |-> NoKey, secret |-> NoKey, extra |-> TRUE]}
    \cup {Bound(k) : k \in KeyIds}
    \cup {[present |-> TRUE, id |-> k, secret |-> NoKey, extra |-> FALSE] : k \in {1}}
InitSections ==
    {sc \in [SectionNames -> SectionOptions] :
        /\ sc["work"] \in {NoSection, Bound(MaxKeyId)}
        /\ sc["DEFAULT"] \in {NoSection, Bound(1)}}
InitStores ==
    {NoFile, MalformedFile}
    \cup {[exists |-> TRUE, malformed |-> FALSE, keyComment |-> FALSE, sec |-> sc] :
            sc \in InitSections}
    \cup {[exists |-> TRUE, malformed |-> FALSE, keyComment |-> TRUE, sec |-> sc] :
            sc \in {x \in InitSections : ~x["default"].present}}

\* a value cut short by a write that stopped inside it: it is the id or the
\* secret of no key
CutValue == NewKeyId + 1

\* what is left of the section sv when the text stops inside it: the header
\* with the options that come before the cut, the last of them possibly cut
\* short. ov is the section as it was read from a file: its options keep the
\* order they have in that file, which the model does not record, so any of
\* them may come before the cut; an option that the call has added stands
\* after them, the id before the secret (config.set, lines 212-213).
PartialSections(sv, ov) ==
    LET oldI == ov.present /\ ov.id # NoKey
        oldS == ov.present /\ ov.secret # NoKey
        oldE == ov.present /\ ov.extra
        oldDone(u) == /\ oldI => u[1] = sv.id
                      /\ oldS => u[2] = sv.secret
                      /\ oldE => u[3] = sv.extra
    IN {[present |-> TRUE, id |-> t[1], secret |-> t[2], extra |-> t[3]] :
        t \in {u \in ({NoKey, sv.id} \cup (IF sv.id # NoKey THEN {CutValue} ELSE {}))
                     \X ({NoKey, sv.secret} \cup (IF sv.secret # NoKey THEN {CutValue} ELSE {}))
                     \X {FALSE, sv.extra} :
                  /\ ~(u[1] = CutValue /\ u[2] = CutValue)
                  /\ (~oldI /\ u[1] # NoKey) => oldDone(u)
                  /\ (~oldS /\ u[2] # NoKey) => (oldDone(u) /\ u[1] = sv.id)
                  /\ (~oldE /\ u[3]) => oldDone(u)}}

\* the parsable files that a beginning of the text of w can be: some sections
\* complete, at most one section partial, the others missing. o holds the
\* sections as they were read from a file. The sections of first head the
\* text and those of last end it; the order of the others is the order of the
\* file, which the model does not record. A DEFAULT header without options
\* reads as no DEFAULT section, and the comment before the first header is
\* there once a header is.
PrefixFiles(w, o, first, last) ==
    LET names == {n \in SectionNames : w.sec[n].present}
        heads == first \cap names
        norm(n, sv) == IF n = "DEFAULT" /\ sv.id = NoKey /\ sv.secret = NoKey /\ ~sv.extra
                       THEN NoSection ELSE sv
    IN {[exists |-> TRUE, malformed |-> FALSE, keyComment |-> t[1],
         sec |-> [n \in SectionNames |-> IF n \in t[2] THEN w.sec[n] ELSE NoSection]] :
            t \in {u \in {FALSE, w.keyComment} \X SUBSET names :
                      /\ u[2] # {} => u[1] = w.keyComment
                      /\ (u[2] \ heads # {}) => heads \subseteq u[2]
                      /\ \A z \in (last \cap u[2]) : names \ last \subseteq u[2]}}
       \cup
       UNION {{[exists |-> TRUE, malformed |-> FALSE, keyComment |-> w.keyComment,
                sec |-> [n \in SectionNames |->
                            IF n \in t[1] THEN w.sec[n]
                            ELSE IF n = t[2] THEN norm(n, ps) ELSE NoSection]] :
                    ps \in PartialSections(w.sec[t[2]], o.sec[t[2]])} :
              t \in {u \in (SUBSET names) \X names :
                        /\ u[2] \notin u[1]
                        /\ (u[2] \notin heads) => heads \subseteq u[1]
                        /\ (u[2] \in heads) => u[1] \subseteq heads
                        /\ (u[2] \notin last) => u[1] \cap last = {}
                        /\ (u[2] \in last) => names \ last \subseteq u[1]}}

\* the parsable files that an unparsable file may begin with: the model keeps
\* nothing of the text of an unparsable file, which begins as one of the
\* starting files does
MalformedBeginnings ==
    UNION {PrefixFiles(g, g, {}, {}) : g \in {x \in InitStores : x.exists /\ ~x.malformed}}

\* shutil.copy2(credentials_file, backup) that raises: the backup was not
\* opened (b), was emptied, or holds a beginning of the text of f, byte for
\* byte and cut anywhere, up to the whole of it when only the copy of the
\* file's times and modes failed
FailedCopies(f, b) ==
    {b, EmptyFile, MalformedFile}
    \cup (IF f.malformed THEN MalformedBeginnings ELSE PrefixFiles(f, f, {}, {}))

\* open(credentials_file, 'w') followed by config.write that raises: the file
\* was emptied by open and holds a beginning of the text of w, cut inside a
\* header or an option name (unparsable), inside or after a value (parsable),
\* up to the whole of w when only its last blank line is missing; configparser
\* writes DEFAULT first, then the sections in the order of the file, a section
\* that config.add_section has just added last
FailedWrites(f, w, profile) ==
    {EmptyFile, MalformedFile}
    \cup PrefixFiles(w, IF f.exists THEN f ELSE EmptyFile, {"DEFAULT"},
                     IF f.exists /\ f.sec[profile].present THEN {} ELSE {profile})

\* the results of a call of update_credentials_file on file f with backup b,
\* when a successful copy leaves the backup b1, the rewrite leaves the file w
\* and a successful call the backup b2
UpdateResults(f, b, b1, b2, w, profile) ==
    (IF f.exists
     THEN {[store |-> f, backup |-> x, ret |-> "raise", outcome |-> "copy_fail"] :
             x \in FailedCopies(f, b)}
     ELSE {})
    \cup {[store |-> f, backup |-> b1, ret |-> "false", outcome |-> "mkdir_fail"]}
    \cup (IF f.exists /\ f.malformed
          THEN {[store |-> f, backup |-> b1, ret |-> "false", outcome |-> "parse_fail"]}
          ELSE {[store |-> f, backup |-> b1, ret |-> "false", outcome |-> "open_fail"]}
               \cup {[store |-> x, backup |-> b1, ret |-> "false", outcome |-> "write_fail"] :
                       x \in FailedWrites(f, w, profile)}
               \cup {[store |-> w, backup |-> b2, ret |-> "true", outcome |-> "ok"]})

\* an update that takes the backup only when there is none yet
update_credentials_file_BackupOnce(f, b, profile, id, secret) ==
    LET b1 == IF f.exists /\ ~b.exists THEN f ELSE b
    IN UpdateResults(f, b, b1, b1, WrittenFile(f, profile, id, secret), profile)

\* an update that copies the backup after the rewrite instead of before it
update_credentials_file_BackupAfter(f, b, profile, id, secret) ==
    LET w == WrittenFile(f, profile, id, secret)
    IN UpdateResults(f, b, b, w, w, profile)

\* update_credentials_file: the possible results [store, backup, ret] of one
\* call on file f with backup b; ret is "true", "false" or "raise" (the copy
\* of the backup is outside the try block)
update_credentials_file(f, b, profile, id, secret) ==
    LET b1 == IF f.exists THEN f ELSE b
    IN UpdateResults(f, b, b1, b1, WrittenFile(f, profile, id, secret), profile)

\* ------------------------------------------------------------------ state
\* A request is logged as [op, phase, id, ok, held, gone]: op is one of "session",
\* "identify", "list", "delete", "create", "write"; phase is the step of main
\* that issued it ("start", "capacity", "create", "persist", "cleanup",
\* "final"); held is the number of keys at the provider at that moment, gone
\* tells that the id named by the request is not a key of the provider.
VARIABLES
    pc,                 \* position of the run in main()
    live,               \* the identity's access keys at the provider
    store,              \* the credentials file
    backup,             \* the file <credentials>.backup
    profile,            \* main: profile
    tries,              \* select_profile: invalid answers given at the menu
    current_access_key, \* main: current_access_key
    current_secret_key, \* main: current_secret_key
    access_keys,        \* main: access_keys (the listing of step 5)
    recommended_key,    \* main: recommended_key
    declined,           \* the user answered no to "Delete recommended key"
    typed_id,           \* the id entered at "Enter the Access Key ID to delete"
    key_to_delete,      \* main: key_to_delete (NoKey when not in locals())
    new_key,            \* main: new_key
    cleanup_listing,    \* ids of the listing taken in the cleanup condition
    log,                \* the requests issued so far, in order
    live0,              \* the provider's keys when the run started
    store0,             \* the credentials file when the run started
    last_write          \* the last call of update_credentials_file

vars == <<pc, live, store, backup, profile, tries, current_access_key, current_secret_key, access_keys,
          recommended_key, declined, typed_id, key_to_delete, new_key, cleanup_listing, log,
          live0, store0, last_write>>

Event(op, phase, id, ok) ==
    [op |-> op, phase |-> phase, id |-> id, ok |-> ok, held |-> Cardinality(live),
     gone |-> id # NoKey /\ id \notin Ids(live)]

\* what is remembered of a call of update_credentials_file: its arguments,
\* its result, and the file and the backup as they were before the call
NoWrite == [profile |-> "none", id |-> NoKey, secret |-> NoKey, ret |-> "none",
            outcome |-> "none", before |-> NoFile, backup_before |-> NoFile]
WriteCall(p, id, secret, r, f, b) ==
    [profile |-> p, id |-> id, secret |-> secret, ret |-> r.ret, outcome |-> r.outcome,
     before |-> f, backup_before |-> b]

InitLive ==
    {S \in SUBSET [AccessKeyId : KeyIds, Status : Statuses, CreateDate : Times] :
        Cardinality(S) <= KeyLimit /\ UniqueIds(S)}

Init ==
    /\ pc = "select"
    /\ live \in InitLive
    /\ store \in InitStores
    /\ backup \in {NoFile}
    /\ profile = "none"
    /\ tries = 0
    /\ current_access_key = NoKey
    /\ current_secret_key = NoKey
    /\ access_keys = <<>>
    /\ recommended_key = NoRecord
    /\ declined = FALSE
    /\ typed_id = NoKey
    /\ key_to_delete = NoKey
    /\ new_key = NoRecord
    /\ cleanup_listing = {}
    /\ log = <<>>
    /\ live0 = live
    /\ store0 = store
    /\ last_write = NoWrite

\* ---------------------------------------------------------------- provider
\* iam.delete_access_key: the key must exist; any call may fail (ClientError)
DeleteOutcomes(id) == IF id \in Ids(live) THEN {TRUE, FALSE} ELSE {FALSE}
\* iam.create_access_key: refused at the cap; any call may fail
CreateOutcomes == IF Cardinality(live) < KeyLimit THEN {TRUE, FALSE} ELSE {FALSE}
CreatedKey == [AccessKeyId |-> NewKeyId, Status |-> "Active", CreateDate |-> MaxTime + 1]
WithoutKey(S, id) == {k \in S : k.AccessKeyId # id}

\* ---------------------------------------------------------------- decisions
\* a capacity check that is off by one
AtCapacity_OffByOne(keys) == Len(keys) >= KeyLimit - 1

\* "if len(access_keys) >= 2"
AtCapacity(keys) == Len(keys) >= KeyLimit

\* a choice that takes an empty line as the recommendation
ChosenKey_EmptyMeansRecommended(rec, yes, typed) ==
    IF rec # NoRecord /\ (yes \/ typed = NoKey) THEN rec.AccessKeyId ELSE typed

\* a choice that ignores the user's answer when there is a recommendation
ChosenKey_AlwaysRecommended(rec, yes, typed) ==
    IF rec # NoRecord THEN rec.AccessKeyId ELSE typed

\* the key named for deletion in step 6: the recommendation when there is one
\* and the user accepts it, else the id the user enters
ChosenKey(rec, yes, typed) == IF rec # NoRecord /\ yes THEN rec.AccessKeyId ELSE typed

\* a cleanup condition without the comparison with the key deleted in step 6
CleanupWanted_NoIdCheck(current, deleted) == current # NoKey

\* the first two conjuncts of the cleanup condition: there was a key in the
\* profile and it is not the one deleted in step 6
CleanupWanted(current, deleted) == current # NoKey /\ current # deleted

\* a third conjunct that does not look at the listing
StillListed_Always(current, keys) == TRUE

\* the third conjunct: the old key is in the fresh listing
StillListed(current, keys) == \E i \in 1..Len(keys) : keys[i].AccessKeyId = current

\* ------------------------------------------------------------------ actions
\* a select_profile whose "no" to creating a default profile does not exit
\* and falls through to the menu
SelectProfile_NoExit ==
    /\ pc = "select"
    /\ LET profiles == get_available_profiles(store)
       IN \E yes \in BOOLEAN :
            IF profiles = {} /\ yes
            THEN /\ profile' = "default"
                 /\ pc' = "session"
            ELSE IF Cardinality(profiles) = 1 /\ yes
            THEN /\ profile' = CHOOSE p \in profiles : TRUE
                 /\ pc' = "session"
            ELSE /\ profile' = profile
                 /\ pc' = "menu"
    /\ UNCHANGED <<live, store, backup, tries, current_access_key, current_secret_key, access_keys,
                   recommended_key, declined, typed_id, key_to_delete, new_key, cleanup_listing,
                   log, live0, store0, last_write>>

\* select_profile, up to the menu
SelectProfile ==
    /\ pc = "select"
    /\ LET profiles == get_available_profiles(store)
       IN \E yes \in BOOLEAN :
            IF profiles = {}
            THEN /\ profile' = IF yes THEN "default" ELSE profile
                 /\ pc' = IF yes THEN "session" ELSE "Aborted"
            ELSE IF Cardinality(profiles) = 1 /\ yes
            THEN /\ profile' = CHOOSE p \in profiles : TRUE
                 /\ pc' = "session"
            ELSE /\ profile' = profile
                 /\ pc' = "menu"
    /\ UNCHANGED <<live, store, backup, tries, current_access_key, current_secret_key, access_keys,
                   recommended_key, declined, typed_id, key_to_delete, new_key, cleanup_listing,
                   log, live0, store0, last_write>>

\* select_profile, the while loop: a number of the menu
MenuChoice ==
    /\ pc = "menu"
    /\ \E p \in get_available_profiles(store) : profile' = p
    /\ pc' = "session"
    /\ tries' = 0
    /\ UNCHANGED <<live, store, backup, current_access_key, current_secret_key, access_keys,
                   recommended_key, declined, typed_id, key_to_delete, new_key, cleanup_listing,
                   log, live0, store0, last_write>>

\* select_profile, the while loop: not a number, or out of range
MenuInvalid ==
    /\ pc = "menu"
    /\ tries < MaxTries
    /\ tries' = tries + 1
    /\ UNCHANGED <<pc, live, store, backup, profile, current_access_key, current_secret_key, access_keys,
                   recommended_key, declined, typed_id, key_to_delete, new_key, cleanup_listing,
                   log, live0, store0, last_write>>

\* create_boto3_session and the check in main
CreateSession ==
    /\ pc = "session"
    /\ \E ok \in BOOLEAN :
        /\ log' = Append(log, Event("session", "start", NoKey, ok))
        /\ pc' = IF ok THEN "identity" ELSE "Aborted"
    /\ UNCHANGED <<live, store, backup, profile, tries, current_access_key, current_secret_key, access_keys,
                   recommended_key, declined, typed_id, key_to_delete, new_key, cleanup_listing,
                   live0, store0, last_write>>

\* get_current_user and the check in main
GetCurrentUser ==
    /\ pc = "identity"
    /\ \E ok \in BOOLEAN :
        /\ log' = Append(log, Event("identify", "start", NoKey, ok))
        /\ pc' = IF ok THEN "read" ELSE "Aborted"
    /\ UNCHANGED <<live, store, backup, profile, tries, current_access_key, current_secret_key, access_keys,
                   recommended_key, declined, typed_id, key_to_delete, new_key, cleanup_listing,
                   live0, store0, last_write>>

\* step 4: read the profile's current credentials
ReadCredentials ==
    /\ pc = "read"
    /\ current_access_key' = read_profile_credentials(store, profile)[1]
    /\ current_secret_key' = read_profile_credentials(store, profile)[2]
    /\ pc' = "list"
    /\ UNCHANGED <<live, store, backup, profile, tries, access_keys,
                   recommended_key, declined, typed_id, key_to_delete, new_key, cleanup_listing,
                   log, live0, store0, last_write>>

\* list_access_keys: the listing in some order, or [] when the call fails
ListResults == {[ok |-> TRUE, keys |-> s] : s \in ListingsOf(live)}
               \cup {[ok |-> FALSE, keys |-> <<>>]}

\* step 5 and the capacity check of step 6
ListKeys ==
    /\ pc = "list"
    /\ \E r \in ListResults :
        /\ access_keys' = r.keys
        /\ log' = Append(log, Event("list", "start", NoKey, r.ok))
        /\ pc' = IF AtCapacity(r.keys) THEN "confirm" ELSE "create"
    /\ UNCHANGED <<live, store, backup, profile, tries, current_access_key, current_secret_key,
                   recommended_key, declined, typed_id, key_to_delete, new_key, cleanup_listing,
                   live0, store0, last_write>>

\* step 6: the recommendation and the user's answer; typed is the id entered
\* after declining (NoKey for an empty line)
ConfirmRetirement ==
    /\ pc = "confirm"
    /\ LET rec == get_recommended_key_to_delete(access_keys)
       IN /\ recommended_key' = rec
          /\ \E yes \in BOOLEAN, typed \in 0..MaxKeyId :
                /\ declined' = ~(rec # NoRecord /\ yes)
                /\ typed_id' = IF rec # NoRecord /\ yes THEN NoKey ELSE typed
                /\ key_to_delete' = ChosenKey(rec, yes, typed)
          /\ pc' = IF key_to_delete' # NoKey THEN "capdelete" ELSE "Aborted"
    /\ UNCHANGED <<live, store, backup, profile, tries, current_access_key, current_secret_key, access_keys,
                   new_key, cleanup_listing, log, live0, store0, last_write>>

\* step 6: delete the chosen key, exit on failure
CapacityDelete ==
    /\ pc = "capdelete"
    /\ \E ok \in DeleteOutcomes(key_to_delete) :
        /\ live' = IF ok THEN WithoutKey(live, key_to_delete) ELSE live
        /\ log' = Append(log, Event("delete", "capacity", key_to_delete, ok))
        /\ pc' = IF ok THEN "create" ELSE "Aborted"
    /\ UNCHANGED <<store, backup, profile, tries, current_access_key, current_secret_key, access_keys,
                   recommended_key, declined, typed_id, key_to_delete, new_key, cleanup_listing,
                   live0, store0, last_write>>

\* step 7: create the new key, exit on failure
CreateKey ==
    /\ pc = "create"
    /\ \E ok \in CreateOutcomes :
        /\ live' = IF ok THEN live \cup {CreatedKey} ELSE live
        /\ new_key' = IF ok THEN CreatedKey ELSE new_key
        /\ log' = Append(log, Event("create", "create", NoKey, ok))
        /\ pc' = IF ok THEN "persist" ELSE "Aborted"
    /\ UNCHANGED <<store, backup, profile, tries, current_access_key, current_secret_key, access_keys,
                   recommended_key, declined, typed_id, key_to_delete, cleanup_listing,
                   live0, store0, last_write>>

\* step 8: update the credentials file, exit on failure
Persist ==
    /\ pc = "persist"
    /\ \E r \in update_credentials_file(store, backup, profile,
                                        new_key.AccessKeyId, new_key.AccessKeyId) :
        /\ store' = r.store
        /\ backup' = r.backup
        /\ last_write' = WriteCall(profile, new_key.AccessKeyId, new_key.AccessKeyId,
                                   r, store, backup)
        /\ log' = Append(log, Event("write", "persist", new_key.AccessKeyId, r.ret = "true"))
        /\ pc' = IF r.ret = "true" THEN "cleanup" ELSE "Aborted"
    /\ UNCHANGED <<live, profile, tries, current_access_key, current_secret_key, access_keys,
                   recommended_key, declined, typed_id, key_to_delete, new_key, cleanup_listing,
                   live0, store0>>

\* step 9: the cleanup condition; the listing is requested only when the
\* first two conjuncts hold
CleanupCheck ==
    /\ pc = "cleanup"
    /\ IF CleanupWanted(current_access_key, key_to_delete)
       THEN \E r \in ListResults :
                /\ cleanup_listing' = SeqIds(r.keys)
                /\ log' = Append(log, Event("list", "cleanup", NoKey, r.ok))
                /\ pc' = IF StillListed(current_access_key, r.keys) THEN "cleanupask" ELSE "final"
       ELSE /\ pc' = "final"
            /\ UNCHANGED <<cleanup_listing, log>>
    /\ UNCHANGED <<live, store, backup, profile, tries, current_access_key, current_secret_key, access_keys,
                   recommended_key, declined, typed_id, key_to_delete, new_key, live0, store0, last_write>>

\* step 9: "Delete the previous current access key?"
CleanupAsk ==
    /\ pc = "cleanupask"
    /\ \E yes \in BOOLEAN : pc' = IF yes THEN "cleanupdelete" ELSE "final"
    /\ UNCHANGED <<live, store, backup, profile, tries, current_access_key, current_secret_key, access_keys,
                   recommended_key, declined, typed_id, key_to_delete, new_key, cleanup_listing,
                   log, live0, store0, last_write>>

\* a cleanup delete that exits on failure, as the delete of step 6 does
CleanupDelete_AbortOnFailure ==
    /\ pc = "cleanupdelete"
    /\ \E ok \in DeleteOutcomes(current_access_key) :
        /\ live' = IF ok THEN WithoutKey(live, current_access_key) ELSE live
        /\ log' = Append(log, Event("delete", "cleanup", current_access_key, ok))
        /\ pc' = IF ok THEN "final" ELSE "Aborted"
    /\ UNCHANGED <<store, backup, profile, tries, current_access_key, current_secret_key, access_keys,
                   recommended_key, declined, typed_id, key_to_delete, new_key, cleanup_listing,
                   live0, store0, last_write>>

\* step 9: delete the old key; a failure is only a warning
CleanupDelete ==
    /\ pc = "cleanupdelete"
    /\ \E ok \in DeleteOutcomes(current_access_key) :
        /\ live' = IF ok THEN WithoutKey(live, current_access_key) ELSE live
        /\ log' = Append(log, Event("delete", "cleanup", current_access_key, ok))
    /\ pc' = "final"
    /\ UNCHANGED <<store, backup, profile, tries, current_access_key, current_secret_key, access_keys,
                   recommended_key, declined, typed_id, key_to_delete, new_key, cleanup_listing,
                   live0, store0, last_write>>

\* the final status listing
FinalList ==
    /\ pc = "final"
    /\ \E r \in ListResults :
        log' = Append(log, Event("list", "final", NoKey, r.ok))
    /\ pc' = "Done"
    /\ UNCHANGED <<live, store, backup, profile, tries, current_access_key, current_secret_key, access_keys,
                   recommended_key, declined, typed_id, key_to_delete, new_key, cleanup_listing,
                   live0, store0, last_write>>

Next ==
    \/ SelectProfile
    \/ MenuChoice
    \/ MenuInvalid
    \/ CreateSession
    \/ GetCurrentUser
    \/ ReadCredentials
    \/ ListKeys
    \/ ConfirmRetirement
    \/ CapacityDelete
    \/ CreateKey
    \/ Persist
    \/ CleanupCheck
    \/ CleanupAsk
    \/ CleanupDelete
    \/ FinalList

Spec == Init /\ [][Next]_vars

\* ------------------------------------- the run with a second operator
\* Somebody else deletes a key of the identity by hand while the run is in
\* its cleanup step, between the fresh listing and the delete request.
ExternalDelete ==
    /\ pc \in {"cleanupask", "cleanupdelete"}
    /\ \E k \in live : live' = live \ {k}
    /\ UNCHANGED <<pc, store, backup, profile, tries, current_access_key, current_secret_key,
                   access_keys, recommended_key, declined, typed_id, key_to_delete, new_key,
                   cleanup_listing, log, live0, store0, last_write>>

EnvNext ==
    \/ SelectProfile
    \/ MenuChoice
    \/ MenuInvalid
    \/ CreateSession
    \/ GetCurrentUser
    \/ ReadCredentials
    \/ ListKeys
    \/ ConfirmRetirement
    \/ CapacityDelete
    \/ CreateKey
    \/ Persist
    \/ CleanupCheck
    \/ CleanupAsk
    \/ CleanupDelete
    \/ FinalList
    \/ ExternalDelete

EnvSpec == Init /\ [][EnvNext]_vars

TypeOK ==
    /\ pc \in {"sel", "sel_done", "st_idle", "st_written", "st_twice", "st_failed",
               "st_read", "select", "menu", "session", "identity", "read", "list", "confirm",
               "capdelete", "create", "persist", "cleanup", "cleanupask",
               "cleanupdelete", "final", "Done", "Aborted"}
    /\ UniqueIds(live) /\ live \subseteq KeyRecords
    /\ store \in FileVals /\ backup \in FileVals
    /\ profile \in Profiles \cup {"none"}
    /\ tries \in 0..MaxTries
    /\ current_access_key \in 0..CutValue
    /\ current_secret_key \in 0..CutValue
    /\ key_to_delete \in 0..MaxKeyId
    /\ typed_id \in 0..MaxKeyId
    /\ declined \in BOOLEAN
    /\ new_key \in {NoRecord, CreatedKey}

\* ------------------------------------------------- the run as it proceeds
\* The menu of select_profile asks again after every invalid answer, without
\* limit: here the count of invalid answers starts over after MaxTries.
MenuInvalidAgain ==
    /\ pc = "menu"
    /\ tries = MaxTries
    /\ tries' = 0
    /\ UNCHANGED <<pc, live, store, backup, profile, current_access_key, current_secret_key,
                   access_keys, recommended_key, declined, typed_id, key_to_delete, new_key,
                   cleanup_listing, log, live0, store0, last_write>>

LiveNext ==
    \/ SelectProfile
    \/ MenuChoice
    \/ MenuInvalid
    \/ MenuInvalidAgain
    \/ CreateSession
    \/ GetCurrentUser
    \/ ReadCredentials
    \/ ListKeys
    \/ ConfirmRetirement
    \/ CapacityDelete
    \/ CreateKey
    \/ Persist
    \/ CleanupCheck
    \/ CleanupAsk
    \/ CleanupDelete
    \/ FinalList

\* the program is single-threaded and every call and prompt returns: some
\* step is taken whenever one is possible, and the call of
\* update_credentials_file, which has a result in every state, returns or
\* raises; which answer the user gives is not constrained
LiveStep == pc # "persist" /\ LiveNext

LiveSpec == Init /\ [][LiveNext]_vars /\ WF_vars(LiveStep) /\ []<>(pc # "persist")

\* ------------------------------------------- the selector on its own
\* get_recommended_key_to_delete applied to every record list of up to
\* MaxLen records, in every listing order, for every bound id
SelLists ==
    UNION {{s \in [1..n -> [AccessKeyId : KeyIds, Status : Statuses, CreateDate : Times]] :
                \A i, j \in 1..n : s[i].AccessKeyId = s[j].AccessKeyId => i = j} :
           n \in 0..MaxLen}

SelInit ==
    /\ pc = "sel"
    /\ access_keys \in SelLists
    /\ current_access_key \in 0..MaxKeyId
    /\ current_secret_key = NoKey
    /\ live = {}
    /\ store = NoFile
    /\ backup = NoFile
    /\ profile = "none"
    /\ tries = 0
    /\ recommended_key = NoRecord
    /\ declined = FALSE
    /\ typed_id = NoKey
    /\ key_to_delete = NoKey
    /\ new_key = NoRecord
    /\ cleanup_listing = {}
    /\ log = <<>>
    /\ live0 = {}
    /\ store0 = NoFile
    /\ last_write = NoWrite

SelRecommend ==
    /\ pc = "sel"
    /\ recommended_key' = get_recommended_key_to_delete(access_keys)
    /\ pc' = "sel_done"
    /\ UNCHANGED <<live, store, backup, profile, tries, current_access_key, current_secret_key, access_keys,
                   declined, typed_id, key_to_delete, new_key, cleanup_listing, log,
                   live0, store0, last_write>>

SelNext == SelRecommend

SelSpec == SelInit /\ [][SelNext]_vars

\* ------------------------------------------- the credentials file on its own
\* update_credentials_file and read_profile_credentials applied to every
\* starting file, with and without an earlier backup, for every profile, id
\* and secret; a successful write may be repeated with the same arguments
InitBackups == {NoFile, EmptyFile, [EmptyFile EXCEPT !.sec["default"] = Bound(1)]}

StoreInit ==
    /\ pc = "st_idle"
    /\ store \in InitStores
    /\ backup \in InitBackups
    /\ profile \in Profiles
    /\ store0 = store
    /\ last_write = NoWrite
    /\ current_access_key = NoKey
    /\ current_secret_key = NoKey
    /\ access_keys = <<>>
    /\ live = {}
    /\ tries = 0
    /\ recommended_key = NoRecord
    /\ declined = FALSE
    /\ typed_id = NoKey
    /\ key_to_delete = NoKey
    /\ new_key = NoRecord
    /\ cleanup_listing = {}
    /\ log = <<>>
    /\ live0 = {}

StoreWrite ==
    /\ pc = "st_idle"
    /\ \E id \in 1..NewKeyId, secret \in 1..NewKeyId :
        \E r \in update_credentials_file(store, backup, profile, id, secret) :
            /\ store' = r.store
            /\ backup' = r.backup
            /\ last_write' = WriteCall(profile, id, secret, r, store, backup)
            /\ pc' = IF r.ret = "true" THEN "st_written" ELSE "st_failed"
    /\ UNCHANGED <<live, profile, tries, current_access_key, current_secret_key, access_keys,
                   recommended_key, declined, typed_id, key_to_delete, new_key,
                   cleanup_listing, log, live0, store0>>

StoreWriteAgain ==
    /\ pc = "st_written"
    /\ \E r \in update_credentials_file(store, backup, profile,
                                        last_write.id, last_write.secret) :
            /\ store' = r.store
            /\ backup' = r.backup
            /\ last_write' = WriteCall(profile, last_write.id, last_write.secret,
                                       r, store, backup)
            /\ pc' = IF r.ret = "true" THEN "st_twice" ELSE "st_failed"
    /\ UNCHANGED <<live, profile, tries, current_access_key, current_secret_key, access_keys,
                   recommended_key, declined, typed_id, key_to_delete, new_key,
                   cleanup_listing, log, live0, store0>>

StoreRead ==
    /\ pc \in {"st_idle", "st_written", "st_twice", "st_failed"}
    /\ current_access_key' = read_profile_credentials(store, profile)[1]
    /\ current_secret_key' = read_profile_credentials(store, profile)[2]
    /\ pc' = "st_read"
    /\ UNCHANGED <<live, store, backup, profile, tries, access_keys,
                   recommended_key, declined, typed_id, key_to_delete, new_key,
                   cleanup_listing, log, live0, store0, last_write>>

StoreNext ==
    \/ StoreWrite
    \/ StoreWriteAgain
    \/ StoreRead

StoreSpec == StoreInit /\ [][StoreNext]_vars

\* ================================================================ claims
LogIdx == 1..Len(log)
IsReq(i, op) == log[i].op = op
CapacityDeletes == {i \in LogIdx : log[i].op = "delete" /\ log[i].phase = "capacity"}
CleanupRequests == {i \in LogIdx : log[i].phase = "cleanup"}
Deleted == {log[i].id : i \in {j \in LogIdx : log[j].op = "delete" /\ log[j].ok}}
Listed == pc \in {"confirm", "capdelete", "create", "persist", "cleanup", "cleanupask",
                  "cleanupdelete", "final", "Done"}
            \/ (pc = "Aborted" /\ \E i \in LogIdx : log[i].op = "list")
BoundNow == read_profile_credentials(store, profile)[1]

\* C1: createRecord is never requested while the provider holds 2 or more
\* records, unless a delete request of this run succeeded before it; for
\* every outcome of the listing, a failed listing included.
C1_CreateOnlyBelowCap ==
    \A i \in LogIdx :
        (log[i].op = "create" /\ log[i].held >= KeyLimit)
            => \E j \in 1..(i - 1) : log[j].op = "delete" /\ log[j].ok

\* C2: the record bound to the target profile at the start of the run is
\* deleted at the provider only after the new record was created and
\* persisted to the store, whatever the user answers at the retirement
\* confirmation.
C2_BoundDeletedOnlyAfterPersist ==
    \A i \in LogIdx :
        (log[i].op = "delete" /\ log[i].ok /\ log[i].id = current_access_key)
            => \E j \in 1..(i - 1) : log[j].op = "write" /\ log[j].ok

\* C3: a run that starts with a live Active record has a live Active record
\* in every state it reaches.
C3_AlwaysAnActiveKey ==
    (\E k \in live0 : k.Status = "Active") => (\E k \in live : k.Status = "Active")

\* C4: in a terminal state (Done, or Aborted after a failed create or a
\* failed store write) the target profile is not bound in the store to an
\* id this run deleted at the provider.
C4_StoreNotBoundToDeleted ==
    (\/ pc = "Done"
     \/ /\ pc = "Aborted" /\ Len(log) > 0
        /\ log[Len(log)].op \in {"create", "write"} /\ ~log[Len(log)].ok)
        => (BoundNow = NoKey \/ BoundNow \notin Deleted)

\* C5: after the first failed provider call or store operation no create
\* request, delete request or store write is issued, and the run does not
\* end in Done.
C5_FailureAborts ==
    \A i \in LogIdx :
        ~log[i].ok =>
            /\ pc # "Done"
            /\ \A j \in (i + 1)..Len(log) : log[j].op \notin {"create", "delete", "write"}

\* C6: when the key deleted in the capacity branch is the key that was bound
\* to the profile, the cleanup step is skipped: no cleanup request is issued
\* and no cleanup confirmation is asked; when the capacity branch was not
\* entered, the confirmation is asked exactly when there was a bound id and
\* the fresh listing contains it.
C6_Skipped ==
    (current_access_key # NoKey
     /\ \E i \in CapacityDeletes : log[i].ok /\ log[i].id = current_access_key)
        => (CleanupRequests = {} /\ pc \notin {"cleanupask", "cleanupdelete"})
C6_Decision ==
    (pc = "cleanup" /\ ~AtCapacity(access_keys) /\ pc' # pc)
        => ((pc' = "cleanupask")
                <=> (current_access_key # NoKey /\ current_access_key \in cleanup_listing'))
C6_CleanupSkippedOrDecided == [](C6_Skipped) /\ [][C6_Decision]_vars

\* C6 witness: persistence succeeded after the bound key was deleted for
\* capacity, and the run went past the cleanup step.
C6_Witness ==
    /\ pc = "Done"
    /\ current_access_key # NoKey
    /\ \E i \in CapacityDeletes : log[i].ok /\ log[i].id = current_access_key
    /\ \E i \in LogIdx : log[i].op = "write" /\ log[i].ok

\* C7: at capacity, when the user declines the recommendation and enters
\* another id of the listing, the one delete request of the capacity branch
\* names that id and the recommended record stays live in that branch.
C7_OverrideDeleted ==
    (declined /\ typed_id \in SeqIds(access_keys)
     /\ typed_id # recommended_key.AccessKeyId)
        => /\ Cardinality(CapacityDeletes) <= 1
           /\ \A i \in CapacityDeletes : log[i].id = typed_id
           /\ pc \in {"create", "persist", "cleanup", "cleanupask", "cleanupdelete",
                      "final", "Done"} => Cardinality(CapacityDeletes) = 1
           /\ pc \in {"capdelete", "create", "persist", "cleanup", "cleanupask",
                      "cleanupdelete"} => recommended_key.AccessKeyId \in Ids(live)

\* C7 witness: the override was deleted and the run went on to create.
C7_Witness ==
    /\ pc = "persist"
    /\ declined /\ typed_id \in SeqIds(access_keys)
    /\ typed_id # recommended_key.AccessKeyId
    /\ typed_id \notin Ids(live)
    /\ recommended_key.AccessKeyId \in Ids(live)

InactiveIdx == {i \in 1..Len(access_keys) : access_keys[i].Status = "Inactive"}
ActiveIdx == {i \in 1..Len(access_keys) : access_keys[i].Status = "Active"}
EarliestFirstListed(I, i) ==
    \A j \in I : \/ access_keys[i].CreateDate < access_keys[j].CreateDate
                 \/ access_keys[i].CreateDate = access_keys[j].CreateDate /\ i <= j
EarliestSmallestId(I, i) ==
    \A j \in I : \/ access_keys[i].CreateDate < access_keys[j].CreateDate
                 \/ /\ access_keys[i].CreateDate = access_keys[j].CreateDate
                    /\ access_keys[i].AccessKeyId <= access_keys[j].AccessKeyId

\* C8 (as amended): for a list of 2 or more records with an Inactive one,
\* the recommendation is the Inactive record with the earliest creation
\* timestamp, and among the Inactive records sharing it the one the provider
\* listed first; the bound id plays no part.
C8_OldestInactiveFirstListed ==
    (pc = "sel_done" /\ Len(access_keys) >= 2 /\ InactiveIdx # {})
        => \E i \in InactiveIdx :
                recommended_key = access_keys[i] /\ EarliestFirstListed(InactiveIdx, i)

\* C8 as stated: ties between the earliest Inactive records go to the
\* lexicographically smallest id, whatever the listing order.
C8_OldestInactiveSmallestId ==
    (pc = "sel_done" /\ Len(access_keys) >= 2 /\ InactiveIdx # {})
        => \E i \in InactiveIdx :
                recommended_key = access_keys[i] /\ EarliestSmallestId(InactiveIdx, i)

\* C8 witness: two Inactive records share the earliest timestamp, an Active
\* record is older, and the recommendation is the first listed of the two.
C8_Witness ==
    /\ pc = "sel_done" /\ Len(access_keys) >= 2
    /\ \E i, j \in InactiveIdx :
        /\ i < j
        /\ access_keys[i].CreateDate = access_keys[j].CreateDate
        /\ access_keys[i].AccessKeyId > access_keys[j].AccessKeyId
        /\ recommended_key = access_keys[i]
    /\ \E a \in ActiveIdx : access_keys[a].CreateDate < recommended_key.CreateDate

\* C9 (as amended): for a list of 2 or more records, all Active, the
\* recommendation is the record with the earliest creation timestamp, and
\* among the records sharing it the one the provider listed first, also when
\* it is the record bound to the profile.
C9_OldestActiveFirstListed ==
    (pc = "sel_done" /\ Len(access_keys) >= 2 /\ InactiveIdx = {})
        => \E i \in ActiveIdx :
                recommended_key = access_keys[i] /\ EarliestFirstListed(ActiveIdx, i)

\* C9 as stated: ties between the earliest Active records go to the
\* lexicographically smallest id.
C9_OldestActiveSmallestId ==
    (pc = "sel_done" /\ Len(access_keys) >= 2 /\ InactiveIdx = {})
        => \E i \in ActiveIdx :
                recommended_key = access_keys[i] /\ EarliestSmallestId(ActiveIdx, i)

\* C9 witness: all records Active, the oldest is listed last and is the
\* bound one, and it is recommended.
C9_Witness ==
    /\ pc = "sel_done" /\ Len(access_keys) >= 2 /\ InactiveIdx = {}
    /\ recommended_key = access_keys[Len(access_keys)]
    /\ recommended_key.AccessKeyId = current_access_key
    /\ \A i \in 1..(Len(access_keys) - 1) :
            access_keys[i].CreateDate > recommended_key.CreateDate

EmptyStore(f) == ~f.exists \/ (~f.malformed /\ \A n \in SectionNames : ~f.sec[n].present)
Creates == {i \in LogIdx : log[i].op = "create"}

\* C10: when the listing has fewer than 2 records the capacity branch is not
\* entered and every delete request comes after a create request; with an
\* empty store and no record at the provider the run issues no delete
\* request, and once it has persisted it has created one record and bound it
\* in a new default section.
C10_BelowCapNoRetirement ==
    /\ (Listed /\ Len(access_keys) < KeyLimit)
        => /\ pc \notin {"confirm", "capdelete"}
           /\ key_to_delete = NoKey
           /\ \A i \in LogIdx : log[i].phase # "capacity"
           /\ \A i \in LogIdx : log[i].op = "delete" => \E j \in 1..(i - 1) : log[j].op = "create"
    /\ (EmptyStore(store0) /\ live0 = {})
        => /\ \A i \in LogIdx : log[i].op # "delete"
           /\ pc \in {"cleanup", "cleanupask", "cleanupdelete", "final", "Done"}
                => /\ Cardinality(Creates) = 1
                   /\ profile = "default"
                   /\ ~store0.sec["default"].present
                   /\ store.sec["default"] = Bound(NewKeyId)
                   /\ live = {CreatedKey}

\* C10 witness: a run from an empty store and no record reached Done.
C10_Witness ==
    /\ pc = "Done" /\ EmptyStore(store0) /\ live0 = {}
    /\ new_key = CreatedKey /\ store.sec["default"].id = NewKeyId

\* C11: when update_credentials_file fails at any step, the content of the
\* live file that existed before the call is the same as before the call.
C11_FailedWriteKeepsFile ==
    (last_write.ret \in {"false", "raise"} /\ last_write.before.exists)
        => store = last_write.before

\* C12: whenever a call on an existing file opens the live file for writing,
\* the backup then holds the content the live file had when the call
\* started, whatever the backup held before.
C12_BackupBeforeRewrite ==
    [][(last_write' # last_write /\ last_write'.outcome \in {"ok", "write_fail"}
        /\ store.exists) => backup' = store]_vars

\* C12 witness: the live file was rewritten, an earlier and different backup
\* existed, and the backup now is the file as it was before the call.
C12_Witness ==
    /\ last_write.outcome \in {"ok", "write_fail"}
    /\ last_write.before.exists /\ last_write.backup_before.exists
    /\ last_write.backup_before # last_write.before
    /\ backup = last_write.before
    /\ store # last_write.before

\* C13: after a successful write of (p, A, B), reading p returns exactly
\* (A, B), and every other section has the bindings and unknown keys it had
\* before the write.
C13_RoundTrip ==
    (pc = "st_read" /\ last_write.ret = "true")
        => /\ <<current_access_key, current_secret_key>> = <<last_write.id, last_write.secret>>
           /\ \A n \in SectionNames \ {profile} : store.sec[n] = last_write.before.sec[n]

\* C13 witness: the profile was bound to another id, two other sections
\* exist, and the binding read back is the one written.
C13_Witness ==
    /\ pc = "st_read" /\ last_write.ret = "true"
    /\ last_write.before.sec[profile].present
    /\ last_write.before.sec[profile].id \notin {NoKey, last_write.id}
    /\ last_write.id # last_write.secret
    /\ \A n \in SectionNames \ {profile} : store.sec[n].present
    /\ current_access_key = last_write.id

\* C14: after the same (profile, id, secret) was written twice in a row, the
\* file is what it was after the first write, and the backup is the file as
\* it was just before the second write.
C14_Idempotent ==
    pc = "st_twice" => (store = last_write.before /\ backup = last_write.before)

\* C14 witness: two writes succeeded on a file that the first write changed.
C14_Witness ==
    /\ pc = "st_twice"
    /\ store0.exists /\ store0 # store
    /\ backup # store0

\* C16: reading the profile returns (none, none) when the file is absent,
\* the profile has no section, or its section lacks the id or the secret;
\* the id main holds as the previous key is an id bound in the profile's own
\* section.
C16_ReadOnlyOwnBinding ==
    profile \in Profiles =>
        /\ (\/ ~store0.exists
            \/ ~store0.sec[profile].present
            \/ store0.sec[profile].id = NoKey
            \/ store0.sec[profile].secret = NoKey)
                => (current_access_key = NoKey /\ current_secret_key = NoKey)
        /\ current_access_key # NoKey
                => (store0.sec[profile].present /\ store0.sec[profile].id = current_access_key)

\* C15: an empty line at "Enter the Access Key ID to delete" ends the run
\* with exit status 1 (pc = "Aborted"): no delete request and no create
\* request is issued, and the store and the provider are as at the start.
C15_EmptyAnswerCancels ==
    (declined /\ typed_id = NoKey)
        => /\ pc = "Aborted"
           /\ \A i \in LogIdx : log[i].op \notin {"delete", "create", "write"}
           /\ store = store0 /\ backup = NoFile
           /\ live = live0

\* C15 witness: a recommendation was shown, declined, and an empty id typed.
C15_Witness ==
    /\ declined /\ typed_id = NoKey
    /\ recommended_key # NoRecord
    /\ pc = "Aborted"
    /\ store0.exists

CleanupDeletes == {i \in LogIdx : log[i].op = "delete" /\ log[i].phase = "cleanup"}
WritesOk == {i \in LogIdx : log[i].op = "write" /\ log[i].ok}

\* C17: a failed delete request of the capacity branch ends the run before
\* any create request and any store write; a delete request of the cleanup
\* step that fails because the key is already gone does not end the run,
\* which goes on to Done.
C17_FailedDeleteInv ==
    /\ \A i \in CapacityDeletes :
        ~log[i].ok => /\ pc = "Aborted"
                      /\ i = Len(log)
                      /\ \A j \in LogIdx : log[j].op \notin {"create", "write"}
                      /\ store = store0
    /\ \A i \in CleanupDeletes :
        (~log[i].ok /\ log[i].gone) => pc \in {"final", "Done"}
C17_FailedDeleteStep == (pc = "final" /\ pc' # pc) => pc' = "Done"
C17_FailedDelete == [](C17_FailedDeleteInv) /\ [][C17_FailedDeleteStep]_vars

\* C17 witness: the old key was listed, somebody deleted it, the cleanup
\* delete failed for that reason, and the run is Done.
C17_Witness ==
    /\ pc = "Done"
    /\ \E i \in CleanupDeletes : ~log[i].ok /\ log[i].gone
    /\ current_access_key \in cleanup_listing

\* C19: when the run is Done, the target profile is bound in the store to
\* the id and the secret of the key created in this run and that key is live
\* at the provider; no delete request of the run names the created key.
C19_DoneBoundToNewKey ==
    /\ pc = "Done"
        => /\ new_key # NoRecord
           /\ read_profile_credentials(store, profile)
                = <<new_key.AccessKeyId, new_key.AccessKeyId>>
           /\ store.sec[profile].id = new_key.AccessKeyId
           /\ new_key \in live
    /\ \A i \in LogIdx : log[i].op = "delete" => log[i].id # NewKeyId

\* C19 witness: a run that deleted a key for capacity and the old key in
\* cleanup is Done, for a profile other than 'default'.
C19_Witness ==
    /\ pc = "Done" /\ profile = "work"
    /\ \E i \in CapacityDeletes : log[i].ok
    /\ \E i \in CleanupDeletes : log[i].ok

\* C20: at most one create request, at most one delete request in the
\* capacity branch and one in cleanup, never two for the same id; the
\* cleanup delete comes after a successful store write, names the
\* previously bound id, which the listing taken after the write contains,
\* and is issued only from the confirmed state; declining leaves the key
\* live and the run goes on to Done.
C20_RequestsInv ==
    /\ Cardinality(Creates) <= 1
    /\ Cardinality(CapacityDeletes) <= 1
    /\ Cardinality(CleanupDeletes) <= 1
    /\ \A i \in LogIdx : log[i].op = "delete" => i \in CapacityDeletes \cup CleanupDeletes
    /\ \A i, j \in LogIdx :
        (log[i].op = "delete" /\ log[j].op = "delete" /\ log[i].id = log[j].id) => i = j
    /\ \A i \in CleanupDeletes :
        /\ log[i].id = current_access_key /\ current_access_key # NoKey
        /\ current_access_key \in cleanup_listing
        /\ \E w \in WritesOk, l \in LogIdx :
            /\ w < l /\ l < i
            /\ log[l].op = "list" /\ log[l].phase = "cleanup" /\ log[l].ok
C20_RequestsStep ==
    /\ (pc' = "cleanupdelete" /\ pc' # pc) => pc = "cleanupask"
    /\ CleanupDeletes' # CleanupDeletes => pc = "cleanupdelete"
    /\ (pc = "cleanupask" /\ pc' = "final")
        => (live' = live /\ current_access_key \in Ids(live') /\ log' = log)
    /\ (pc = "final" /\ pc' # pc) => pc' = "Done"
C20_Requests == [](C20_RequestsInv) /\ [][C20_RequestsStep]_vars

\* C20 witness: a run with one delete in the capacity branch and one in
\* cleanup, both successful, is Done.
C20_Witness ==
    /\ pc = "Done"
    /\ \E i \in CapacityDeletes, j \in CleanupDeletes :
        log[i].ok /\ log[j].ok /\ log[i].id # log[j].id
    /\ Cardinality(live) = 1

Terminal == pc \in {"Done", "Aborted"}

\* C18 (as amended): every run reaches Done or Aborted, unless it stays at
\* the menu of select_profile for ever, where a valid answer is possible and
\* the user keeps giving invalid ones.
C18_TerminatesUnlessMenuRepeats ==
    <>Terminal \/ <>[](pc = "menu" /\ get_available_profiles(store) # {})

\* C18 as stated: every run reaches Done or Aborted.
C18_Terminates == <>Terminal

\* C18 witness: the menu was shown again after invalid answers.
C18_Witness ==
    /\ pc = "menu" /\ tries = MaxTries
    /\ Cardinality(get_available_profiles(store)) > 1

====
